---- MODULE Spec2Model ----
(***************************************************************************)
(* CollideEffect (modules/core/src/effects/collide/collide-effect.ts).     *)
(*                                                                         *)
(* The effect is driven by its host: preRender once per frame, cleanup on  *)
(* disposal, getModuleParameters whenever the draw pass asks.  The state   *)
(* is the effect's private fields, the GPU objects it created, the default *)
(* program manager's registration of the collide module, the framebuffer   *)
(* size, the debug canvas, and a record of what the last call did.         *)
(***************************************************************************)
EXTENDS Integers, Sequences, FiniteSets, TLC

\* ---------------------------------------------------------------- bounds
MaxCreated == 2          \* dummy textures / collide passes ever created
NumBoundVersions == 2    \* distinct bounds arrays a layer can return

\* ------------------------------------------------------- program constant
DOWNSCALE == 2

\* ------------------------------------------------------------ input sets
LayerIds == {1, 2}
Viewports == {"vpA", "vpB"}          \* viewport values (equality by value)
CanvasSizes == {<<800, 600>>, <<1600, 1200>>}
BoundVersions == 1..NumBoundVersions

\* `undefined` / `null` of each field type
NoViewport == "undefined"
NoHandle == <<"undefined", 0>>
NullBounds == <<0, 0>>               \* getBounds() returned null
NoSize == <<0, 0>>
NoRenderInfo == [null |-> TRUE, obj |-> 0, layers |-> <<>>, layerBounds |-> <<>>]
NoFrame == [valid |-> FALSE, layers |-> <<>>, layerBounds |-> <<>>,
            viewports |-> <<>>, canvas |-> NoSize]
NotRendered == [valid |-> FALSE, layers |-> <<>>, layerBounds |-> <<>>,
                viewports |-> <<>>]

\* The bound references a layer can return from getBounds(): null, or one of
\* its own cached arrays.  Two layers never share an array; both may return null.
BoundsOf(l) == {NullBounds} \cup {<<l, k>> : k \in BoundVersions}

\* The ways a layer of the scene fails the filter, as <<visible, has a
\* CollideExtension, collideEnabled>>: layer 1 is hidden; layer 2 lacks the
\* extension or has collision switched off.
FailingProps(l) ==
  IF l = 1 THEN {<<FALSE, TRUE, TRUE>>}
           ELSE {<<TRUE, FALSE, TRUE>>, <<TRUE, TRUE, FALSE>>}

\* A layer of the scene: it qualifies (all three props truthy) with any of
\* its bounds, or it fails one test of the filter.
LayerStates(l) ==
  {[id |-> l, visible |-> TRUE, collideExtension |-> TRUE, collideEnabled |-> TRUE,
    bounds |-> b] : b \in BoundsOf(l)}
  \cup
  {[id |-> l, visible |-> p[1], collideExtension |-> p[2], collideEnabled |-> p[3],
    bounds |-> NullBounds] : p \in FailingProps(l)}

\* The host's layer list: the two layers; a layer that is not in the scene
\* and a layer that fails the filter are the same to the effect.
Scenes == {<<a, b>> : a \in LayerStates(1), b \in LayerStates(2)}

\* The host's viewport list: none, one, or two (only the first is read).
ViewportLists == {<<>>, <<"vpA">>, <<"vpB", "vpA">>}

VARIABLES
  dummyCollideMap,    \* handle of the 1x1 texture, or NoHandle
  programManager,     \* TRUE when this.programManager is set
  oldRenderInfo,      \* RenderInfo | null
  haveCollideLayers,
  collidePass,        \* handle of the CollidePass, or NoHandle
  collideMap,         \* handle of collidePass.collideMap, or NoHandle
  lastViewport,       \* Viewport | undefined
  textures,           \* textures[i]: delete() calls on the i-th dummy texture created
  passes,             \* passes[i]: delete() calls on the i-th CollidePass created
  moduleRegistered,   \* the collide module is among the manager's default modules
  fboSize,            \* size of collidePass.fbo (and of collideMap)
  rendered,           \* what the last collidePass.render() of the live mask drew
  lastCall,           \* "none" | "preRender" | "cleanup"
  frame,              \* inputs of the most recent preRender call
  renderCalls,        \* collidePass.render() calls made by the last call
  resizeCalls,        \* fbo.resize() calls made by the last call
  debugRuns,          \* _debug() runs in the last call
  threw,              \* the last call ended with an exception
  entry,              \* how the last call relates to the call before it
  everCollide,        \* some preRender so far had a collision layer
  collideSinceCleanup \* some preRender since the last cleanup had one

effect == <<dummyCollideMap, programManager, oldRenderInfo, haveCollideLayers,
            collidePass, collideMap, lastViewport>>
gpu == <<textures, passes, moduleRegistered, fboSize, rendered>>
observed == <<lastCall, frame, renderCalls, resizeCalls, debugRuns, threw, entry,
              everCollide, collideSinceCleanup>>
vars == <<effect, gpu, observed>>

\* How a call relates to the call before it:
\*   "start"    there was no call before it
\*   "cleanup"  the call before it was cleanup
\*   "empty"    the call before it was a preRender without collision layers
\*   "frame"    the call before it was a preRender with collision layers
\* and, for a preRender that follows a preRender with collision layers,
\*   "same"     same collision layers, bound references, viewports and canvas
\*   "resized"  same collision layers, bound references and viewports,
\*              another canvas size
\* instead of "frame".
Before ==
  CASE lastCall = "none" -> "start"
    [] lastCall = "cleanup" -> "cleanup"
    [] lastCall = "preRender" /\ frame.layers = <<>> -> "empty"
    [] OTHER -> "frame"

Init ==
  /\ dummyCollideMap = NoHandle
  /\ programManager = FALSE
  /\ oldRenderInfo = NoRenderInfo
  /\ haveCollideLayers = FALSE
  /\ collidePass = NoHandle
  /\ collideMap = NoHandle
  /\ lastViewport = NoViewport
  /\ textures = <<>>
  /\ passes = <<>>
  /\ moduleRegistered = FALSE
  /\ fboSize = NoSize
  /\ rendered = NotRendered
  /\ lastCall = "none"
  /\ frame = NoFrame
  /\ renderCalls = 0
  /\ resizeCalls = 0
  /\ debugRuns = 0
  /\ threw = FALSE
  /\ entry = "start"
  /\ everCollide = FALSE
  /\ collideSinceCleanup = FALSE

\* ------------------------------------------------------------- preRender

\* Viewport.equals(other): false unless other is a viewport, else by value.
ViewportEquals(a, b) == b # NoViewport /\ a = b

IsCollideLayer(l) == l.visible /\ l.collideExtension /\ l.collideEnabled

CollideLayers(layers) == SelectSeq(layers, IsCollideLayer)

\* if (!this.dummyCollideMap) this.dummyCollideMap = new Texture2D(gl, {1, 1})
EnsureDummyCollideMap ==
  IF dummyCollideMap = NoHandle
  THEN /\ textures' = Append(textures, 0)
       /\ dummyCollideMap' = <<"dummy", Len(textures) + 1>>
  ELSE UNCHANGED <<textures, dummyCollideMap>>

\* Faulty variant: the early return forgets to lower the flag.
ClearOnNoLayers_KeepsFlag ==
  /\ oldRenderInfo' = NoRenderInfo
  /\ UNCHANGED haveCollideLayers

\* The branch taken when no layer passes the filter.
ClearOnNoLayers ==
  /\ haveCollideLayers' = FALSE
  /\ oldRenderInfo' = NoRenderInfo

\* Faulty variant: the early return also forgets the last viewport.
NoCollideLayers_ClearsViewport ==
  /\ ClearOnNoLayers
  /\ lastViewport' = NoViewport
  /\ UNCHANGED <<programManager, collidePass, collideMap, passes,
                 moduleRegistered, fboSize, rendered>>
  /\ renderCalls' = 0
  /\ resizeCalls' = 0
  /\ debugRuns' = 0
  /\ threw' = FALSE

NoCollideLayers ==
  /\ ClearOnNoLayers
  /\ UNCHANGED <<programManager, collidePass, collideMap, lastViewport, passes,
                 moduleRegistered, fboSize, rendered>>
  /\ renderCalls' = 0
  /\ resizeCalls' = 0
  /\ debugRuns' = 0
  /\ threw' = FALSE

\* if (!this.programManager) { get the default manager; addDefaultModule(collide) }
RegisterModule ==
  IF ~programManager
  THEN /\ programManager' = TRUE
       /\ moduleRegistered' = TRUE
  ELSE UNCHANGED <<programManager, moduleRegistered>>

\* Faulty variant: a new pass is created on every frame with collision layers.
EnsureCollidePass_Always ==
  /\ passes' = Append(passes, 0)
  /\ collidePass' = <<"pass", Len(passes) + 1>>
  /\ collideMap' = <<"mask", Len(passes) + 1>>

\* Faulty variant: the pass is created but its collideMap is not taken over.
EnsureCollidePass_NoMap ==
  IF collidePass = NoHandle
  THEN /\ passes' = Append(passes, 0)
       /\ collidePass' = <<"pass", Len(passes) + 1>>
       /\ UNCHANGED collideMap
  ELSE UNCHANGED <<passes, collidePass, collideMap>>

\* if (!this.collidePass) { new CollidePass; this.collideMap = pass.collideMap }
EnsureCollidePass ==
  IF collidePass = NoHandle
  THEN /\ passes' = Append(passes, 0)
       /\ collidePass' = <<"pass", Len(passes) + 1>>
       /\ collideMap' = <<"mask", Len(passes) + 1>>
  ELSE UNCHANGED <<passes, collidePass, collideMap>>

\* {layerBounds: collideLayers.map(l => l.getBounds()), layers: collideLayers}.
\* obj is the identity of the object: a new object is never the stored one.
NewRenderInfo(collideLayers) ==
  [null |-> FALSE,
   obj |-> 1 - oldRenderInfo.obj,
   layers |-> [i \in 1..Len(collideLayers) |-> collideLayers[i].id],
   layerBounds |-> [i \in 1..Len(collideLayers) |-> collideLayers[i].bounds]]

\* if (!this.oldRenderInfo) this.oldRenderInfo = renderInfo
StoredRenderInfo(renderInfo) ==
  IF oldRenderInfo.null THEN renderInfo ELSE oldRenderInfo

\* const viewport = viewports[0]
FirstViewport(viewports) ==
  IF Len(viewports) = 0 THEN NoViewport ELSE viewports[1]

\* Faulty variant: only a missing lastViewport counts as a change.
viewportChanged_IgnoresValue(viewport) == lastViewport = NoViewport

viewportChanged(viewport) ==
  lastViewport = NoViewport \/ ~ViewportEquals(lastViewport, viewport)

\* Faulty variant: the framebuffer gets the canvas size, not the downscaled one.
ResizeFramebuffer_FullSize(canvas) ==
  /\ fboSize' = canvas
  /\ resizeCalls' = 1

\* Faulty variant: the framebuffer is sized once, when it is new.
ResizeFramebuffer_OnlyWhenNew(canvas) ==
  IF fboSize = NoSize
  THEN /\ fboSize' = <<canvas[1] \div DOWNSCALE, canvas[2] \div DOWNSCALE>>
       /\ resizeCalls' = 1
  ELSE /\ UNCHANGED fboSize
       /\ resizeCalls' = 0

\* this.collidePass.fbo.resize({canvas.width / DOWNSCALE, canvas.height / DOWNSCALE})
\* (the canvas sizes of CanvasSizes are even, so the quotient is exact)
ResizeFramebuffer(canvas) ==
  /\ fboSize' = <<canvas[1] \div DOWNSCALE, canvas[2] \div DOWNSCALE>>
  /\ resizeCalls' = 1

\* Faulty variant: only the number of layers is compared.
renderInfoUpdated_CountOnly(renderInfo, old) ==
  \/ renderInfo = old
  \/ Len(old.layers) # Len(renderInfo.layers)

\* Faulty variant: a render info that is its own predecessor is not seen as new.
renderInfoUpdated_NoIdentity(renderInfo, old) ==
  \/ Len(old.layers) # Len(renderInfo.layers)
  \/ \E i \in 1..Len(renderInfo.layerBounds) :
       \/ i > Len(old.layerBounds)
       \/ renderInfo.layerBounds[i] # old.layerBounds[i]

renderInfoUpdated(renderInfo, old) ==
  \/ renderInfo = old
  \/ Len(old.layers) # Len(renderInfo.layers)
  \/ \E i \in 1..Len(renderInfo.layerBounds) :
       \/ i > Len(old.layerBounds)
       \/ renderInfo.layerBounds[i] # old.layerBounds[i]

\* Faulty variant: the viewport is passed on even when there is none.
CollidePassRender_AlwaysOneViewport(renderInfo, viewport) ==
  /\ rendered' = [valid |-> TRUE,
                  layers |-> renderInfo.layers,
                  layerBounds |-> renderInfo.layerBounds,
                  viewports |-> <<viewport>>]
  /\ renderCalls' = 1

\* this.collidePass.render({layers, viewports: viewport ? [viewport] : [], ...})
CollidePassRender(renderInfo, viewport) ==
  /\ rendered' = [valid |-> TRUE,
                  layers |-> renderInfo.layers,
                  layerBounds |-> renderInfo.layerBounds,
                  viewports |-> IF viewport # NoViewport THEN <<viewport>> ELSE <<>>]
  /\ renderCalls' = 1

\* Faulty variant: a render does not record the viewport it used.
_render_KeepsLastViewport(renderInfo, old, viewport, vpChanged) ==
  IF old.null
  THEN /\ oldRenderInfo' = old
       /\ renderCalls' = 0
       /\ UNCHANGED <<lastViewport, rendered>>
  ELSE /\ oldRenderInfo' = renderInfo
       /\ IF renderInfoUpdated(renderInfo, old) \/ vpChanged
          THEN /\ UNCHANGED lastViewport
               /\ CollidePassRender(renderInfo, viewport)
          ELSE /\ renderCalls' = 0
               /\ UNCHANGED <<lastViewport, rendered>>

_render(renderInfo, old, viewport, vpChanged) ==
  IF old.null
  THEN /\ oldRenderInfo' = old
       /\ renderCalls' = 0
       /\ UNCHANGED <<lastViewport, rendered>>
  ELSE /\ oldRenderInfo' = renderInfo
       /\ IF renderInfoUpdated(renderInfo, old) \/ vpChanged
          THEN /\ lastViewport' = viewport
               /\ CollidePassRender(renderInfo, viewport)
          ELSE /\ renderCalls' = 0
               /\ UNCHANGED <<lastViewport, rendered>>

\* Faulty variant: the overlay is drawn only on frames that rendered.
_debug_OnlyAfterRender(readbackOk) ==
  IF renderCalls' = 1
  THEN /\ debugRuns' = 1
       /\ threw' = ~readbackOk
  ELSE /\ debugRuns' = 0
       /\ threw' = FALSE

\* readPixelsToArray(this.collideMap) may fail, and the exception then leaves
\* preRender.  The routine writes to the document's 'fbo-canvas' element only;
\* it assigns no field of the effect.
_debug(readbackOk) ==
  /\ debugRuns' = 1
  /\ threw' = ~readbackOk

WithCollideLayers(collideLayers, viewports, canvas, readbackOk) ==
  LET renderInfo == NewRenderInfo(collideLayers)
      viewport == FirstViewport(viewports)
  IN /\ haveCollideLayers' = TRUE
     /\ RegisterModule
     /\ EnsureCollidePass
     /\ ResizeFramebuffer(canvas)
     /\ _render(renderInfo, StoredRenderInfo(renderInfo), viewport,
                viewportChanged(viewport))
     /\ _debug(readbackOk)

preRender(layers, viewports, canvas, readbackOk) ==
  LET collideLayers == CollideLayers(layers)
  IN /\ dummyCollideMap = NoHandle => Len(textures) < MaxCreated
     /\ (Len(collideLayers) > 0 /\ collidePass = NoHandle) => Len(passes) < MaxCreated
     /\ EnsureDummyCollideMap
     /\ IF Len(collideLayers) = 0
        THEN NoCollideLayers
        ELSE WithCollideLayers(collideLayers, viewports, canvas, readbackOk)
     /\ lastCall' = "preRender"
     /\ frame' = [valid |-> TRUE,
                  layers |-> [i \in 1..Len(collideLayers) |-> collideLayers[i].id],
                  layerBounds |-> [i \in 1..Len(collideLayers) |-> collideLayers[i].bounds],
                  viewports |-> viewports,
                  canvas |-> canvas]
     /\ entry' = IF Before = "frame"
                     /\ frame.layers = frame'.layers
                     /\ frame.layerBounds = frame'.layerBounds
                     /\ frame.viewports = viewports
                  THEN IF frame.canvas = canvas THEN "same" ELSE "resized"
                  ELSE Before
     /\ everCollide' = (everCollide \/ Len(collideLayers) > 0)
     /\ collideSinceCleanup' = (collideSinceCleanup \/ Len(collideLayers) > 0)

\* ---------------------------------------------------- getModuleParameters
getModuleParameters ==
  [collideMap |-> IF haveCollideLayers THEN collideMap ELSE dummyCollideMap,
   haveCollideLayers |-> haveCollideLayers]

\* --------------------------------------------------------------- cleanup
\* Faulty variant: the dummy texture is deleted but its handle is kept.
DeleteDummyCollideMap_KeepsHandle ==
  IF dummyCollideMap # NoHandle
  THEN /\ textures' = [textures EXCEPT ![dummyCollideMap[2]] = @ + 1]
       /\ UNCHANGED dummyCollideMap
  ELSE UNCHANGED <<textures, dummyCollideMap>>

\* Faulty variant: the dummy texture is dropped without being deleted.
DeleteDummyCollideMap_Leaks ==
  /\ dummyCollideMap' = NoHandle
  /\ UNCHANGED textures

DeleteDummyCollideMap ==
  IF dummyCollideMap # NoHandle
  THEN /\ textures' = [textures EXCEPT ![dummyCollideMap[2]] = @ + 1]
       /\ dummyCollideMap' = NoHandle
  ELSE UNCHANGED <<textures, dummyCollideMap>>

UnregisterModule ==
  IF haveCollideLayers /\ programManager
  THEN /\ moduleRegistered' = FALSE
       /\ programManager' = FALSE
  ELSE UNCHANGED <<moduleRegistered, programManager>>

\* Faulty variant: the pass is deleted but the effect keeps its handles.
DeleteCollidePass_KeepsHandle ==
  IF collidePass # NoHandle
  THEN /\ passes' = [passes EXCEPT ![collidePass[2]] = @ + 1]
       /\ fboSize' = NoSize
       /\ rendered' = NotRendered
       /\ UNCHANGED <<collidePass, collideMap>>
  ELSE UNCHANGED <<passes, collidePass, collideMap, fboSize, rendered>>

DeleteCollidePass ==
  IF collidePass # NoHandle
  THEN /\ passes' = [passes EXCEPT ![collidePass[2]] = @ + 1]
       /\ collidePass' = NoHandle
       /\ collideMap' = NoHandle
       /\ fboSize' = NoSize
       /\ rendered' = NotRendered
  ELSE UNCHANGED <<passes, collidePass, collideMap, fboSize, rendered>>

\* Faulty variant: cleanup keeps the stored render info.
ResetFields_KeepsRenderInfo ==
  /\ lastViewport' = NoViewport
  /\ haveCollideLayers' = FALSE
  /\ UNCHANGED oldRenderInfo

\* Faulty variant: cleanup leaves haveCollideLayers as it was.
ResetFields_KeepsFlag ==
  /\ lastViewport' = NoViewport
  /\ oldRenderInfo' = NoRenderInfo
  /\ UNCHANGED haveCollideLayers

ResetFields ==
  /\ lastViewport' = NoViewport
  /\ haveCollideLayers' = FALSE
  /\ oldRenderInfo' = NoRenderInfo

cleanup ==
  /\ DeleteDummyCollideMap
  /\ UnregisterModule
  /\ DeleteCollidePass
  /\ ResetFields
  /\ lastCall' = "cleanup"
  /\ renderCalls' = 0
  /\ resizeCalls' = 0
  /\ debugRuns' = 0
  /\ threw' = FALSE
  /\ entry' = Before
  /\ collideSinceCleanup' = FALSE
  /\ UNCHANGED everCollide
  /\ UNCHANGED frame

\* ------------------------------------------------------------------ host
PreRenderCall ==
  \E layers \in Scenes, viewports \in ViewportLists, canvas \in CanvasSizes,
     readbackOk \in BOOLEAN :
    preRender(layers, viewports, canvas, readbackOk)

CleanupCall == cleanup

Next == PreRenderCall \/ CleanupCall

Spec == Init /\ [][Next]_vars

\* ================================================================ claims

HalfCanvas(canvas) == <<canvas[1] \div DOWNSCALE, canvas[2] \div DOWNSCALE>>

\* C1: after a preRender call whose filtered collision-layer set is empty,
\* getModuleParameters returns haveCollideLayers = false and collideMap = the
\* (live) 1x1 dummy texture, whatever calls came before.
C1_EmptyFrameExposesDummy ==
  (lastCall = "preRender" /\ frame.layers = <<>>) =>
    /\ getModuleParameters.haveCollideLayers = FALSE
    /\ getModuleParameters.collideMap = dummyCollideMap
    /\ dummyCollideMap[1] = "dummy"
    /\ textures[dummyCollideMap[2]] = 0

\* C1 witness: an empty frame right after a frame with collision layers, the
\* real mask still alive.
C1_Witness ==
  /\ lastCall = "preRender"
  /\ frame.layers = <<>>
  /\ entry = "frame"
  /\ collideMap # NoHandle

\* C2 as stated: in every reachable state the collideMap returned by
\* getModuleParameters is not null/undefined.
C2_Original == getModuleParameters.collideMap # NoHandle

\* C2 amended: after a preRender call (and until the next cleanup) the
\* collideMap returned is the real mask when haveCollideLayers, else the dummy,
\* and never undefined; before the first preRender and after cleanup it is
\* undefined.
C2_NeverNullAfterPreRender ==
  /\ lastCall = "preRender" =>
       /\ getModuleParameters.collideMap # NoHandle
       /\ getModuleParameters.collideMap[1] =
            (IF haveCollideLayers THEN "mask" ELSE "dummy")
  /\ lastCall # "preRender" => getModuleParameters.collideMap = NoHandle

\* C2 witness: a frame after which the real mask is exposed.
C2_Witness ==
  /\ lastCall = "preRender"
  /\ getModuleParameters.collideMap[1] = "mask"

\* C3: a preRender call with a non-empty filtered set whose preceding
\* preRender call had an empty one invokes the collide render pass.
C3_FirstAppearanceRenders ==
  [][(/\ lastCall' = "preRender"
      /\ frame.valid
      /\ frame.layers = <<>>
      /\ frame'.layers # <<>>) => renderCalls' = 1]_vars

\* C3 witness: collision layers appear right after an empty frame while the
\* pass of an earlier frame is still alive, and a render was made.
C3_Witness ==
  /\ lastCall = "preRender"
  /\ entry = "empty"
  /\ frame.layers # <<>>
  /\ frame.viewports # <<>>
  /\ renderCalls = 1

SameInputs ==
  /\ lastCall = "preRender"
  /\ lastCall' = "preRender"
  /\ frame'.layers = frame.layers
  /\ frame'.layerBounds = frame.layerBounds
  /\ frame'.viewports = frame.viewports

\* C4 as stated (for frames with collision layers and a viewport): two
\* consecutive preRender calls with identical inputs render exactly once in
\* the first call and zero times in the second.
C4_Original ==
  [][(SameInputs /\ frame.layers # <<>> /\ frame.viewports # <<>>) =>
       (renderCalls = 1 /\ renderCalls' = 0)]_vars

\* C4 amended: for two consecutive preRender calls with identical inputs and
\* at least one collision layer: with a non-empty viewports list the second
\* call renders zero times, and the first renders exactly once when it was
\* entered without stored render info (first call, after an empty frame,
\* after cleanup); with an empty viewports list both calls render once.
C4_SecondCallSkips ==
  [][(SameInputs /\ frame.layers # <<>>) =>
       IF frame.viewports # <<>>
       THEN /\ renderCalls' = 0
            /\ entry \in {"start", "cleanup", "empty"} => renderCalls = 1
       ELSE renderCalls = 1 /\ renderCalls' = 1]_vars

\* C4 witness: a frame identical to the one before it, with collision layers
\* and a viewport, that did not render.
C4_Witness ==
  /\ lastCall = "preRender"
  /\ entry = "same"
  /\ frame.layers # <<>>
  /\ frame.viewports # <<>>
  /\ renderCalls = 0

\* The four conditions of C5, on the fields at entry and the call's inputs.
C5_Changed ==
  \/ oldRenderInfo.null
  \/ Len(oldRenderInfo.layers) # Len(frame'.layers)
  \/ \E i \in 1..Len(frame'.layerBounds) :
       /\ i <= Len(oldRenderInfo.layerBounds)
       /\ frame'.layerBounds[i] # oldRenderInfo.layerBounds[i]
  \/ lastViewport = NoViewport
  \/ FirstViewport(frame'.viewports) # lastViewport

\* C5: a preRender call with at least one collision layer invokes the render
\* pass exactly when the stored render info was null at entry, or the stored
\* layer count differs, or some bound reference differs from the stored one at
\* its index, or the viewport differs by value from lastViewport (or none is
\* stored).
C5_RenderExactlyWhen ==
  [][(lastCall' = "preRender" /\ frame'.layers # <<>>) =>
       (renderCalls' = 1 <=> C5_Changed)]_vars

\* C5 witness: a frame after a frame with collision layers that rendered
\* because something changed, not because nothing was stored.
C5_Witness ==
  /\ lastCall = "preRender"
  /\ entry = "frame"
  /\ frame.layers # <<>>
  /\ renderCalls = 1
  /\ Len(frame.layers) = Len(rendered.layers)

\* C6 as stated: a preRender call with collision layers that does not render
\* leaves a mask that was rendered from exactly the current collision layers
\* (by identity, in order), bound references and viewport.
C6_NeverUnderRenders ==
  (lastCall = "preRender" /\ frame.layers # <<>> /\ renderCalls = 0) =>
    /\ rendered.valid
    /\ rendered.layers = frame.layers
    /\ rendered.layerBounds = frame.layerBounds
    /\ rendered.viewports = <<FirstViewport(frame.viewports)>>

\* C7 as stated: after every preRender, if the real target exists its size is
\* half the canvas of that frame.
C7_Original ==
  (lastCall = "preRender" /\ collidePass # NoHandle) =>
    fboSize = HalfCanvas(frame.canvas)

\* C7 amended: after every preRender with at least one collision layer the
\* real target exists and its size is half the canvas of that frame, whether
\* or not a render occurred; a frame without collision layers leaves the size.
C7_ResizedOnCollideFrames ==
  (lastCall = "preRender" /\ frame.layers # <<>>) =>
    /\ collidePass # NoHandle
    /\ resizeCalls = 1
    /\ fboSize = HalfCanvas(frame.canvas)

\* C7 witness: a frame that changed only the canvas size and did not render.
C7_Witness ==
  /\ lastCall = "preRender"
  /\ entry = "resized"
  /\ frame.layers # <<>>
  /\ renderCalls = 0
  /\ fboSize = HalfCanvas(frame.canvas)

ScenarioB ==
  /\ lastCall = "preRender"
  /\ lastCall' = "preRender"
  /\ frame.canvas = <<800, 600>>
  /\ frame'.canvas = <<1600, 1200>>
  /\ frame.layers # <<>>
  /\ frame'.layers = frame.layers
  /\ frame'.layerBounds = frame.layerBounds

\* C8 as stated: in scenario B the target goes from 400x300 to 800x600 and
\* exactly one render call is issued on the resize frame.
C8_Original ==
  [][ScenarioB =>
       /\ fboSize = <<400, 300>>
       /\ fboSize' = <<800, 600>>
       /\ renderCalls' = 1]_vars

\* C8 amended: in scenario B the target goes from 400x300 to 800x600, and the
\* resize frame issues one render call when its first viewport differs by
\* value from the previous frame's or its viewports list is empty, and none
\* otherwise.
C8_ResizeRendersOnViewportChange ==
  [][ScenarioB =>
       /\ fboSize = <<400, 300>>
       /\ fboSize' = <<800, 600>>
       /\ renderCalls' =
            (IF \/ frame'.viewports = <<>>
                \/ FirstViewport(frame'.viewports) # FirstViewport(frame.viewports)
             THEN 1 ELSE 0)]_vars

\* C8 witness: the resize frame of scenario B with layers, bounds and
\* viewports as before: the target is 800x600 and nothing was rendered.
C8_Witness ==
  /\ lastCall = "preRender"
  /\ entry = "resized"
  /\ frame.canvas = <<1600, 1200>>
  /\ frame.viewports # <<>>
  /\ fboSize = <<800, 600>>
  /\ renderCalls = 0

\* C9: after cleanup the dummy texture, collide pass, real mask, lastViewport
\* and lastRenderInfo are unset, haveCollideLayers is false, and every dummy
\* texture and collide pass the effect created has been deleted exactly once.
C9_CleanupReleasesAll ==
  lastCall = "cleanup" =>
    /\ dummyCollideMap = NoHandle
    /\ collidePass = NoHandle
    /\ collideMap = NoHandle
    /\ lastViewport = NoViewport
    /\ oldRenderInfo = NoRenderInfo
    /\ haveCollideLayers = FALSE
    /\ \A i \in 1..Len(textures) : textures[i] = 1
    /\ \A i \in 1..Len(passes) : passes[i] = 1

\* C9 witness: a cleanup after the effect has created its second dummy
\* texture and its second collide pass.
C9_Witness ==
  /\ lastCall = "cleanup"
  /\ Len(textures) = MaxCreated
  /\ Len(passes) = MaxCreated

\* C10: a cleanup that directly follows a cleanup deletes nothing, unregisters
\* nothing, raises no error, and leaves every field of the effect unchanged.
C10_CleanupIdempotent ==
  [][(lastCall = "cleanup" /\ lastCall' = "cleanup") =>
       /\ UNCHANGED effect
       /\ UNCHANGED <<textures, passes, moduleRegistered>>
       /\ threw' = FALSE]_vars

\* C10 witness: a second cleanup in a row, after resources had been created.
C10_Witness ==
  /\ lastCall = "cleanup"
  /\ entry = "cleanup"
  /\ Len(textures) > 0
  /\ Len(passes) > 0

\* C11: a preRender call without collision layers that directly follows a
\* frame with collision layers nulls lastRenderInfo, lowers haveCollideLayers,
\* leaves lastViewport, the pass, the mask handle, the dummy texture and the
\* program-manager registration as they were, and renders, resizes, creates
\* and deletes nothing.
C11_EmptyFrameAfterLayers ==
  [][(/\ lastCall = "preRender"
      /\ frame.layers # <<>>
      /\ lastCall' = "preRender"
      /\ frame'.layers = <<>>) =>
       /\ oldRenderInfo' = NoRenderInfo
       /\ haveCollideLayers' = FALSE
       /\ UNCHANGED <<lastViewport, collidePass, collideMap, dummyCollideMap,
                      programManager, moduleRegistered>>
       /\ UNCHANGED <<textures, passes, fboSize, rendered>>
       /\ renderCalls' = 0
       /\ resizeCalls' = 0]_vars

\* C11 witness: the empty frame after a frame that rendered with a viewport;
\* the viewport of that render is still stored.
C11_Witness ==
  /\ lastCall = "preRender"
  /\ frame.layers = <<>>
  /\ entry = "frame"
  /\ oldRenderInfo.null
  /\ lastViewport # NoViewport
  /\ rendered.valid

\* C12 as stated: lastRenderInfo is null exactly when no frame with a
\* collision layer has ever been observed or the last call was cleanup.
C12_Original ==
  oldRenderInfo.null <=> (~everCollide \/ lastCall = "cleanup")

\* C12 amended: lastRenderInfo is null exactly when the most recent call was
\* not a preRender with a collision layer: before the first call, after
\* cleanup, and after a preRender whose filtered set was empty.
C12_NullUnlessLastFrameHadLayers ==
  oldRenderInfo.null <=> ~(lastCall = "preRender" /\ frame.layers # <<>>)

\* C12 witness: collision layers were seen, no cleanup came after them, and an
\* empty frame has nulled lastRenderInfo.
C12_Witness ==
  /\ lastCall = "preRender"
  /\ frame.layers = <<>>
  /\ collideSinceCleanup
  /\ oldRenderInfo.null

LivePasses == {i \in 1..Len(passes) : passes[i] = 0}

\* C13 as stated: the real mask (pass and collideMap) exists exactly when
\* haveCollideLayers has been true at some point so far, and the pass is
\* created at most once.
C13_Original ==
  /\ (collidePass # NoHandle /\ collideMap # NoHandle) <=> everCollide
  /\ Len(passes) <= 1

\* C13 amended: the real mask (pass and collideMap) exists exactly when
\* haveCollideLayers has been true at some point since construction or the
\* last cleanup; between two cleanups the pass is created at most once (the
\* live pass is the last one created and every earlier one is deleted) and
\* its mask handle is the one every later frame uses.
C13_MaskSinceCleanup ==
  /\ collidePass # NoHandle <=> collideSinceCleanup
  /\ collideMap # NoHandle <=> collideSinceCleanup
  /\ collideSinceCleanup =>
       /\ collidePass = <<"pass", Len(passes)>>
       /\ collideMap = <<"mask", Len(passes)>>
       /\ LivePasses = {Len(passes)}
  /\ ~collideSinceCleanup => LivePasses = {}

\* C13 witness: the second pass of the session, alive on a later frame that
\* has no collision layers.
C13_Witness ==
  /\ lastCall = "preRender"
  /\ frame.layers = <<>>
  /\ collidePass = <<"pass", 2>>
  /\ passes = <<1, 0>>

\* C14 as stated (its teardown half): after cleanup, from any reachable state,
\* the collide module is no longer registered with the default program
\* manager and the effect holds no program-manager reference.
C14_CleanupUnregisters ==
  lastCall = "cleanup" => (~moduleRegistered /\ ~programManager)

\* The first frame with collision layers since construction or the last
\* cleanup.
FirstCollideFrameSinceCleanup ==
  /\ lastCall' = "preRender"
  /\ ~collideSinceCleanup
  /\ frame'.layers # <<>>

\* C15: after cleanup the next preRender recreates the dummy texture, and the
\* next preRender with a collision layer creates a new pass and mask, leaves
\* the shader module registered (registering it again if cleanup had removed
\* it), and invokes the render pass.
C15_FreshAfterCleanup ==
  [][/\ (lastCall = "cleanup" /\ lastCall' = "preRender") =>
          /\ textures' = Append(textures, 0)
          /\ dummyCollideMap' = <<"dummy", Len(textures')>>
     /\ FirstCollideFrameSinceCleanup =>
          /\ passes' = Append(passes, 0)
          /\ collidePass' = <<"pass", Len(passes')>>
          /\ collideMap' = <<"mask", Len(passes')>>
          /\ programManager'
          /\ moduleRegistered'
          /\ renderCalls' = 1]_vars

\* C15 witness: the first frame after a cleanup of a used effect; it has a
\* collision layer, and the second dummy and the second pass are alive.
C15_Witness ==
  /\ lastCall = "preRender"
  /\ entry = "cleanup"
  /\ frame.layers # <<>>
  /\ dummyCollideMap = <<"dummy", 2>>
  /\ collidePass = <<"pass", 2>>
  /\ renderCalls = 1

\* C16: a preRender call with a collision layer and an empty viewports list
\* still invokes the render pass, with an empty viewport list, and reaches the
\* end of the call (an exception can only come from the debug overlay that
\* follows the render); with a non-empty list a render receives exactly the
\* first viewport.
C16_ViewportsPassedOn ==
  (lastCall = "preRender" /\ frame.layers # <<>>) =>
    /\ frame.viewports = <<>> =>
         /\ renderCalls = 1
         /\ rendered.valid
         /\ rendered.viewports = <<>>
         /\ debugRuns = 1
    /\ (frame.viewports # <<>> /\ renderCalls = 1) =>
         rendered.viewports = <<frame.viewports[1]>>
    /\ threw => debugRuns = 1

\* C16 witness: a frame with two collision layers and no viewport, after a
\* frame that had rendered with a viewport.
C16_Witness ==
  /\ lastCall = "preRender"
  /\ entry = "frame"
  /\ Len(frame.layers) = 2
  /\ frame.viewports = <<>>
  /\ renderCalls = 1
  /\ rendered.viewports = <<>>
  /\ ~threw

\* C17 as stated: the debug overlay runs once at the end of every preRender.
C17_Original ==
  lastCall = "preRender" => debugRuns = 1

\* C17 amended: the debug overlay runs once at the end of every preRender that
\* has a collision layer, whether or not it rendered, and does not run in a
\* preRender without collision layers.
C17_DebugOnCollideFrames ==
  lastCall = "preRender" =>
    debugRuns = (IF frame.layers # <<>> THEN 1 ELSE 0)

\* C17 witness: a frame with collision layers that skipped the render and
\* still ran the overlay.
C17_Witness ==
  /\ lastCall = "preRender"
  /\ frame.layers # <<>>
  /\ renderCalls = 0
  /\ debugRuns = 1

\* C18 as stated (its first half): preRender never ends with an exception,
\* also when the readback of the debug overlay fails.
C18_DebugFailureContained ==
  lastCall = "preRender" => ~threw

\* C19: at the end of every preRender with a collision layer and a viewport,
\* the live mask was rendered from as many layers as the frame has, from
\* bound references identical to the frame's at every index, and with the
\* frame's viewport, which is also lastViewport.
C19_MaskFresh ==
  (lastCall = "preRender" /\ frame.layers # <<>> /\ frame.viewports # <<>>) =>
    /\ rendered.valid
    /\ Len(rendered.layers) = Len(frame.layers)
    /\ rendered.layerBounds = frame.layerBounds
    /\ rendered.viewports = <<frame.viewports[1]>>
    /\ lastViewport = frame.viewports[1]
    /\ Len(oldRenderInfo.layers) = Len(frame.layers)
    /\ oldRenderInfo.layerBounds = frame.layerBounds

\* C19 witness: a frame that skipped the render after a frame that had
\* skipped it too; the mask is older than two frames and still matches.
C19_Witness ==
  /\ lastCall = "preRender"
  /\ entry = "same"
  /\ frame.viewports # <<>>
  /\ Len(frame.layers) = 2
  /\ renderCalls = 0
  /\ oldRenderInfo.obj = 1

Live(handle, log) ==
  /\ handle # NoHandle
  /\ handle[2] \in 1..Len(log)
  /\ log[handle[2]] = 0

\* C20: haveCollideLayers implies that the collide pass, the real mask and
\* the dummy texture exist and are not deleted; getModuleParameters never
\* returns a deleted texture; a render is never made without a live pass.
C20_NoUseAfterRelease ==
  /\ haveCollideLayers =>
       /\ Live(collidePass, passes)
       /\ Live(collideMap, passes)
       /\ collideMap[2] = collidePass[2]
       /\ Live(dummyCollideMap, textures)
  /\ getModuleParameters.collideMap # NoHandle =>
       Live(getModuleParameters.collideMap,
            IF getModuleParameters.collideMap[1] = "mask" THEN passes ELSE textures)
  /\ renderCalls = 1 => Live(collidePass, passes)
  /\ rendered.valid => Live(collidePass, passes)

\* C20 witness: the flag is up on the second pass, after the first pass and
\* the first dummy were deleted by a cleanup.
C20_Witness ==
  /\ haveCollideLayers
  /\ passes = <<1, 0>>
  /\ textures = <<1, 0>>
  /\ renderCalls = 1

====
